---- MODULE Spec2Model ----
(***************************************************************************)
(* The plugin registry of the viewer core (PluginRegistry) as a state      *)
(* machine: registerPlugin, initialize (the activation pass, one unit at a *)
(* time, suspended at every await), unregisterPlugin (suspended at the     *)
(* destroy hook) and the lookups.  The dependency resolver the registry    *)
(* imports is modelled from its description.                               *)
(***************************************************************************)
EXTENDS Integers, Sequences, FiniteSets, TLC

VARIABLES
    plugins,               \* Map id -> live instance
    manifests,             \* Map id -> manifest (by package name)
    capabilities,          \* Map capability -> plugin id
    status,                \* Map id -> 'registered' | 'active'
    configurations,        \* Map id -> resolved configuration
    pendingRegistrations,  \* Array of {manifest, packageCreator, config}
    initialized,           \* the registry's activated flag
    resolver,              \* the DependencyResolver's graph
    passes,                \* the initialize() calls made so far, each with its position
    unregs,                \* the unregisterPlugin() calls suspended at a destroy hook
    factoryCalls,          \* per accepted registration: how often its factory was invoked
    updates,               \* the updatePluginConfig() calls made so far, each with its position
    ev,                    \* the operation step taken last and what it returned
    mgr                    \* the legacy PDFPluginManager: its maps, listeners and calls

vars == <<plugins, manifests, capabilities, status, configurations,
          pendingRegistrations, initialized, resolver, passes, unregs,
          factoryCalls, updates, ev, mgr>>

(* the registry's part of the state *)
registry == <<plugins, manifests, capabilities, status, configurations,
              pendingRegistrations, initialized, resolver, passes, unregs,
              factoryCalls, updates, ev>>

tables == <<plugins, manifests, capabilities, status, configurations>>

-----------------------------------------------------------------------------
(* Bounds of the exploration *)

MaxRegs == 3
MaxPasses == 2
MaxUnregs == 1
MaxUpdates == 2
MaxCfgRegs == 2
MaxBatch == 2

-----------------------------------------------------------------------------
(* Maps and small helpers *)

EmptyMap == [k \in {} |-> 0]

Has(m, k) == k \in DOMAIN m

Put(m, k, v) == [q \in (DOMAIN m) \cup {k} |-> IF q = k THEN v ELSE m[q]]

Del(m, k) == [q \in (DOMAIN m) \ {k} |-> m[q]]

Range(s) == {s[i] : i \in DOMAIN s}

RECURSIVE DelAll(_, _)
DelAll(m, ks) == IF ks = <<>> THEN m ELSE DelAll(Del(m, Head(ks)), Tail(ks))

-----------------------------------------------------------------------------
(* The packages a caller can hand to registerPlugin: a manifest, what the  *)
(* factory's product looks like (its id, which hooks it has).              *)

NoConfig == EmptyMap

Pkg(n, i, pr, co, hi, hd, iid) ==
    [pkg |-> n, id |-> i, name |-> n, version |-> "1.0.0",
     provides |-> pr, consumes |-> co, providesIsArray |-> TRUE,
     consumesIsArray |-> TRUE,
     defaultConfig |-> [k \in {"enabled"} |-> 1],
     hasInit |-> hi, hasDestroy |-> hd, instId |-> iid]

PA == Pkg("PA", "a", <<"x">>, <<>>, TRUE, TRUE, "a")
PB == Pkg("PB", "b", <<"y">>, <<"x">>, TRUE, FALSE, "b")
PC == Pkg("PC", "c", <<"z", "x">>, <<>>, FALSE, TRUE, "c")
PS == Pkg("PS", "s", <<"w">>, <<"w">>, TRUE, FALSE, "s")
PE == Pkg("PE", "e", <<>>, <<>>, TRUE, FALSE, "e")
PF == Pkg("PF", "f", <<>>, <<>>, FALSE, FALSE, "")
PM == [Pkg("PM", "", <<>>, <<>>, FALSE, FALSE, "m") EXCEPT !.name = "PM"]
PN == [Pkg("PN", "n", <<>>, <<>>, FALSE, FALSE, "n") EXCEPT !.providesIsArray = FALSE]

Packages == {PA, PB, PC, PS, PE, PF, PM, PN}

Package(n) == CHOOSE p \in Packages : p.pkg = n

Overrides == {NoConfig}

(* the config arguments and the partial configs used where configurations  *)
(* are followed: an override that replaces a default key and adds an       *)
(* undeclared one, and partials that do the one or the other               *)
CfgOverrides == {NoConfig, [k \in {"enabled", "extra"} |-> 2]}

Partials == {[k \in {"enabled"} |-> 3], [k \in {"extra"} |-> 3]}

CfgPackages == {PA, PC}

(* the lists handed to registerPluginBatch: up to MaxBatch entries, each a *)
(* package (well-formed or with a manifest without id) and no config       *)
BatchPackages == {PA, PB, PM}

BatchLists ==
    UNION {[1..n -> {[package |-> pkg, config |-> NoConfig] : pkg \in BatchPackages}] :
             n \in 1..MaxBatch}

Ids == {p.id : p \in Packages} \ {""}

-----------------------------------------------------------------------------
(* The step taken last: which operation's code ran, whether the step was   *)
(* the call itself or a resumption after an await, and what the caller     *)
(* gets back (result "suspended" while the promise is still pending).      *)

Ev(op, call, arg, result, cause, unit, cap) ==
    [op |-> op, call |-> call, arg |-> arg, result |-> result,
     cause |-> cause, unit |-> unit, cap |-> cap]

-----------------------------------------------------------------------------
(* DependencyResolver: a graph keyed by node id, kept in insertion order;  *)
(* resolveLoadOrder is a depth-first traversal that visits dependencies    *)
(* first and fails when it re-enters a node that is still in progress or   *)
(* meets a dependency that was never added.                                *)

EmptyGraph == [nodes |-> <<>>, deps |-> EmptyMap]

AddNode(g, id, dependsOn) ==
    [nodes |-> IF id \in Range(g.nodes) THEN g.nodes ELSE Append(g.nodes, id),
     deps |-> Put(g.deps, id, dependsOn)]

RECURSIVE Visit(_, _, _)
RECURSIVE VisitAll(_, _, _)
Visit(g, n, st) ==
    IF st.failed THEN st
    ELSE IF n \in st.temp \/ ~Has(g.deps, n) THEN [st EXCEPT !.failed = TRUE]
    ELSE IF n \in Range(st.order) THEN st
    ELSE LET s1 == VisitAll(g, g.deps[n], [st EXCEPT !.temp = @ \cup {n}])
         IN  IF s1.failed THEN s1
             ELSE [order |-> Append(s1.order, n), temp |-> s1.temp \ {n},
                   failed |-> FALSE]
VisitAll(g, ns, st) ==
    IF ns = <<>> THEN st ELSE VisitAll(g, Tail(ns), Visit(g, Head(ns), st))

ResolveLoadOrder(g) ==
    VisitAll(g, g.nodes, [order |-> <<>>, temp |-> {}, failed |-> FALSE])

-----------------------------------------------------------------------------
(* initialize(), lines 68-83: the dependency graph from the pending        *)
(* registrations.  The provider of a capability is the first pending       *)
(* registration whose provides includes it.                                *)

Manifest(reg) == Package(reg.pkg)

Provider(pend, cap) ==
    LET hits == {i \in DOMAIN pend : cap \in Range(Manifest(pend[i]).provides)}
    IN  IF hits = {} THEN 0 ELSE CHOOSE i \in hits : \A j \in hits : i <= j

(* DependsOn with the provider lookup never finding anything *)
DependsOnNone(pend, consumes, acc) == acc

RECURSIVE DependsOn(_, _, _)
DependsOn(pend, consumes, acc) ==
    IF consumes = <<>> THEN acc
    ELSE LET p == Provider(pend, Head(consumes))
             pid == IF p = 0 THEN "" ELSE Manifest(pend[p]).id
         IN  DependsOn(pend, Tail(consumes),
                       IF p = 0 \/ pid \in Range(acc) THEN acc ELSE Append(acc, pid))

RECURSIVE BuildGraph(_, _, _)
BuildGraph(g, pend, i) ==
    IF i > Len(pend) THEN g
    ELSE BuildGraph(AddNode(g, Manifest(pend[i]).id,
                            DependsOn(pend, Manifest(pend[i]).consumes, <<>>)),
                    pend, i + 1)

(* pendingRegistrations.find(r => r.manifest.id === pluginId): index or 0 *)
FindReg(pend, id) ==
    LET hits == {i \in DOMAIN pend : Manifest(pend[i]).id = id}
    IN  IF hits = {} THEN 0 ELSE CHOOSE i \in hits : \A j \in hits : i <= j

-----------------------------------------------------------------------------
(* initializePlugin, lines 125-158: the synchronous part, up to the point  *)
(* where the unit's initialize hook is invoked.                            *)

(* Merge as a replacement: only the override's keys *)
MergeReplace(base, over) == over

Merge(base, over) ==
    [k \in (DOMAIN base) \cup (DOMAIN over) |->
        IF k \in DOMAIN over THEN over[k] ELSE base[k]]

(* validateConfig: the default keys missing from the config *)
MissingKeys(config, defaultConfig) == (DOMAIN defaultConfig) \ (DOMAIN config)

(* validatePlugin *)
ValidPlugin(inst) == Package(inst.pkg).instId # ""

(* MissingCapability with the capability table never looked at *)
MissingCapabilityNone(caps, consumes) == ""

(* the first consumed capability that the capability table lacks, or "" *)
RECURSIVE MissingCapability(_, _)
MissingCapability(caps, consumes) ==
    IF consumes = <<>> THEN ""
    ELSE IF ~Has(caps, Head(consumes)) THEN Head(consumes)
    ELSE MissingCapability(caps, Tail(consumes))

(* the loop that claims the provided capabilities one by one; it stops at *)
(* the first one already claimed and keeps what it had set before          *)
RECURSIVE ClaimProvided(_, _, _)
ClaimProvided(caps, provides, id) ==
    IF provides = <<>> THEN [caps |-> caps, clash |-> ""]
    ELSE IF Has(caps, Head(provides)) THEN [caps |-> caps, clash |-> Head(provides)]
    ELSE ClaimProvided(Put(caps, Head(provides), id), Tail(provides), id)

(* what the synchronous part does for the pending registration ridx:     *)
(* err = "" when the unit was recorded, else the error thrown and the      *)
(* capability table as the throw leaves it                                 *)
SyncPart(ridx) ==
    LET reg == pendingRegistrations[ridx]
        m == Manifest(reg)
        inst == [pkg |-> reg.pkg, reg |-> ridx, gen |-> factoryCalls[ridx] + 1]
        finalConfig == Merge(m.defaultConfig, reg.config)
        missing == MissingCapability(capabilities, m.consumes)
        claim == ClaimProvided(capabilities, m.provides, m.id)
        Thrown(e, why, cap, caps) ==
            [err |-> e, cause |-> why, cap |-> cap, caps |-> caps,
             inst |-> inst, cfg |-> finalConfig]
    IN  IF ~ValidPlugin(inst)
          THEN Thrown("PluginRegistrationError", "plugin-id", "", capabilities)
        ELSE IF MissingKeys(finalConfig, m.defaultConfig) # {}
          THEN Thrown("PluginConfigurationError", "missing-keys", "", capabilities)
        ELSE IF missing # ""
          THEN Thrown("PluginRegistrationError", "missing-capability", missing,
                      capabilities)
        ELSE IF claim.clash # ""
          THEN Thrown("PluginRegistrationError", "capability-clash", claim.clash,
                      claim.caps)
        ELSE Thrown("", "", "", claim.caps)

SetPass(p, rec) ==
    [q \in (DOMAIN passes) \cup {p} |-> IF q = p THEN rec ELSE passes[q]]

(* the first position from `from` on whose id has a pending registration *)
RECURSIVE NextFound(_, _)
NextFound(order, from) ==
    IF from > Len(order) THEN from
    ELSE IF FindReg(pendingRegistrations, order[from]) # 0 THEN from
    ELSE NextFound(order, from + 1)

(* initialize(), lines 90-105: the loop over the load order, run from     *)
(* position `from` until the next await (or the end, or a throw)           *)
RunLoop(p, rec, from, call) ==
    LET j == NextFound(rec.order, from)
    IN  IF j > Len(rec.order)
        THEN /\ initialized' = TRUE
             /\ pendingRegistrations' = <<>>
             /\ passes' = SetPass(p, [rec EXCEPT !.pc = "done", !.idx = j, !.pkg = ""])
             /\ ev' = Ev("initialize", call, p, "ok", "finished", "", "")
             /\ UNCHANGED <<tables, factoryCalls>>
        ELSE LET ridx == FindReg(pendingRegistrations, rec.order[j])
                 m == Manifest(pendingRegistrations[ridx])
                 r == SyncPart(ridx)
                 began == [rec EXCEPT !.idx = j, !.pkg = m.pkg, !.inst = r.inst,
                                      !.started = Append(@, ridx)]
             IN  /\ factoryCalls' = [factoryCalls EXCEPT ![ridx] = @ + 1]
                 /\ capabilities' = r.caps
                 /\ UNCHANGED <<initialized, pendingRegistrations>>
                 /\ IF r.err # ""
                    THEN /\ passes' = SetPass(p, [began EXCEPT !.pc = "failed"])
                         /\ ev' = Ev("initialize", call, p, "CircularDependencyError",
                                     r.cause, m.id, r.cap)
                         /\ UNCHANGED <<plugins, manifests, status, configurations>>
                    ELSE /\ plugins' = Put(plugins, m.id, r.inst)
                         /\ manifests' = Put(manifests, m.id, m.pkg)
                         /\ configurations' = Put(configurations, m.id, r.cfg)
                         /\ ev' = Ev("initialize", call, p, "suspended", "recorded", m.id, "")
                         /\ IF m.hasInit
                            THEN /\ status' = Put(status, m.id, "registered")
                                 /\ passes' = SetPass(p, [began EXCEPT !.pc = "hook"])
                            ELSE /\ status' = Put(status, m.id, "active")
                                 /\ passes' = SetPass(p, [began EXCEPT !.pc = "next",
                                                      !.done = Append(@, ridx)])

NewPass(order) ==
    [order |-> order, idx |-> 0, pc |-> "next", pkg |-> "",
     inst |-> [pkg |-> "", reg |-> 0, gen |-> 0], started |-> <<>>, done |-> <<>>]

-----------------------------------------------------------------------------
(* The operations *)

(* ValidManifest with only the id looked at *)
ValidManifestIdOnly(m) == m.id # ""

ValidManifest(m) ==
    /\ m.id # ""
    /\ m.name # ""
    /\ m.version # ""
    /\ m.providesIsArray
    /\ m.consumesIsArray

(* RegisterError without the check of the activated flag *)
RegisterErrorUnguarded(pkg) ==
    IF ~ValidManifest(pkg) THEN "PluginRegistrationError" ELSE ""

(* what a registerPlugin call throws, "" when it returns normally *)
RegisterError(pkg) ==
    IF initialized THEN "PluginRegistrationError"
    ELSE IF ~ValidManifest(pkg) THEN "PluginRegistrationError"
    ELSE ""

RegisterPlugin(pkg, config) ==
    IF RegisterError(pkg) # ""
    THEN UNCHANGED vars
    ELSE /\ Len(pendingRegistrations) < MaxRegs
         /\ pendingRegistrations' =
                Append(pendingRegistrations, [pkg |-> pkg.pkg, config |-> config])
         /\ factoryCalls' = Append(factoryCalls, 0)
         /\ ev' = Ev("register", TRUE, "", "ok", "", "", "")
         /\ UNCHANGED <<tables, initialized, resolver, passes, unregs>>

(* registerPluginBatch, lines 241-243: the entries registered before the   *)
(* first registerPlugin call that throws                                   *)
RECURSIVE RegisteredOf(_)
RegisteredOf(registrations) ==
    IF registrations = <<>> THEN <<>>
    ELSE IF RegisterError(Head(registrations).package) # "" THEN <<>>
    ELSE <<[pkg |-> Head(registrations).package.pkg,
            config |-> Head(registrations).config]>>
         \o RegisteredOf(Tail(registrations))

(* BatchError with a throwing registerPlugin call skipped over *)
BatchErrorSwallowed(registrations) == ""

(* what a registerPluginBatch call throws: the error of the first entry    *)
(* whose registerPlugin call throws, "" when none does                     *)
RECURSIVE BatchError(_)
BatchError(registrations) ==
    IF registrations = <<>> THEN ""
    ELSE IF RegisterError(Head(registrations).package) # ""
         THEN RegisterError(Head(registrations).package)
    ELSE BatchError(Tail(registrations))

RegisterPluginBatch(registrations) ==
    LET done == RegisteredOf(registrations)
        names == [i \in DOMAIN registrations |-> registrations[i].package.pkg]
    IN  IF done = <<>>
        THEN UNCHANGED vars
        ELSE /\ Len(pendingRegistrations) + Len(done) <= MaxRegs
             /\ pendingRegistrations' = pendingRegistrations \o done
             /\ factoryCalls' = factoryCalls \o [i \in DOMAIN done |-> 0]
             /\ ev' = Ev("batch", TRUE, names,
                         IF BatchError(registrations) = "" THEN "ok"
                         ELSE BatchError(registrations), "", "", "")
             /\ UNCHANGED <<tables, initialized, resolver, passes, unregs, updates>>

(* what an initialize call throws before it does anything (lines 64-66) *)
InitializeError == IF initialized THEN "PluginRegistrationError" ELSE ""

Initialize ==
    IF InitializeError # ""
    THEN UNCHANGED vars
    ELSE /\ Len(passes) < MaxPasses
         /\ UNCHANGED unregs
         /\ LET g == BuildGraph(resolver, pendingRegistrations, 1)
                r == ResolveLoadOrder(g)
                p == Len(passes) + 1
            IN  /\ resolver' = g
                /\ IF r.failed
                   THEN /\ passes' = SetPass(p, [NewPass(<<>>) EXCEPT !.pc = "failed"])
                        /\ ev' = Ev("initialize", TRUE, p, "CircularDependencyError",
                                    "resolver", "", "")
                        /\ UNCHANGED <<tables, pendingRegistrations, initialized,
                                       factoryCalls>>
                   ELSE RunLoop(p, NewPass(r.order), 1, TRUE)

(* the unit's initialize hook resolves: lines 164 and back to the loop *)
HookSucceeded(p) ==
    /\ passes[p].pc = "hook"
    /\ LET id == Package(passes[p].pkg).id
       IN  /\ status' = Put(status, id, "active")
           /\ passes' = SetPass(p, [passes[p] EXCEPT !.pc = "next",
                                        !.done = Append(@, passes[p].inst.reg)])
           /\ ev' = Ev("initialize", FALSE, p, "suspended", "hook-resolved", id, "")
    /\ UNCHANGED <<plugins, manifests, capabilities, configurations,
                   pendingRegistrations, initialized, resolver, unregs, factoryCalls>>

(* HookFailed with the catch block of lines 165-171 only rethrowing *)
HookFailedNoCleanup(p) ==
    /\ passes[p].pc = "hook"
    /\ passes' = SetPass(p, [passes[p] EXCEPT !.pc = "failed"])
    /\ ev' = Ev("initialize", FALSE, p, "CircularDependencyError", "hook",
                Package(passes[p].pkg).id, "")
    /\ UNCHANGED <<tables, pendingRegistrations, initialized, resolver, unregs,
                   factoryCalls>>

(* HookFailed with the loop of initialize() going on to the next unit *)
HookFailedContinues(p) ==
    /\ passes[p].pc = "hook"
    /\ LET m == Package(passes[p].pkg)
       IN  /\ plugins' = Del(plugins, m.id)
           /\ manifests' = Del(manifests, m.id)
           /\ capabilities' = DelAll(capabilities, m.provides)
           /\ passes' = SetPass(p, [passes[p] EXCEPT !.pc = "next"])
           /\ ev' = Ev("initialize", FALSE, p, "CircularDependencyError", "hook",
                       m.id, "")
    /\ UNCHANGED <<status, configurations, pendingRegistrations, initialized,
                   resolver, unregs, factoryCalls>>

(* the unit's initialize hook rejects: lines 165-171, then 106-112 *)
HookFailed(p) ==
    /\ passes[p].pc = "hook"
    /\ LET m == Package(passes[p].pkg)
       IN  /\ plugins' = Del(plugins, m.id)
           /\ manifests' = Del(manifests, m.id)
           /\ capabilities' = DelAll(capabilities, m.provides)
           /\ passes' = SetPass(p, [passes[p] EXCEPT !.pc = "failed"])
           /\ ev' = Ev("initialize", FALSE, p, "CircularDependencyError", "hook",
                       m.id, "")
    /\ UNCHANGED <<status, configurations, pendingRegistrations, initialized,
                   resolver, unregs, factoryCalls>>

(* the await of line 96 resumes: the next iteration of the loop *)
ContinuePass(p) ==
    /\ passes[p].pc = "next"
    /\ RunLoop(p, passes[p], passes[p].idx + 1, FALSE)
    /\ UNCHANGED <<resolver, unregs>>

(* HasDependent with the two manifests swapped in the comparison *)
HasDependentSwapped(id, pkg) ==
    \E other \in DOMAIN manifests :
        /\ other # id
        /\ Range(Package(manifests[other]).provides) \cap Range(Package(pkg).consumes) # {}

(* unregisterPlugin, lines 263-275 *)
HasDependent(id, pkg) ==
    \E other \in DOMAIN manifests :
        /\ other # id
        /\ Range(Package(manifests[other]).consumes) \cap Range(Package(pkg).provides) # {}

(* unregisterPlugin, lines 283-291 *)
Remove(id, pkg) ==
    /\ capabilities' = DelAll(capabilities, Package(pkg).provides)
    /\ plugins' = Del(plugins, id)
    /\ manifests' = Del(manifests, id)
    /\ status' = Del(status, id)
    /\ UNCHANGED configurations

(* what an unregisterPlugin call throws before it reaches the destroy hook *)
UnregisterError(id) ==
    IF ~Has(plugins, id) \/ ~Has(manifests, id) THEN "PluginNotFoundError"
    ELSE IF HasDependent(id, manifests[id]) THEN "PluginRegistrationError"
    ELSE ""

UnregisterPlugin(id) ==
    IF UnregisterError(id) # ""
    THEN UNCHANGED vars
    ELSE /\ UNCHANGED <<pendingRegistrations, initialized, resolver, passes,
                        factoryCalls>>
         /\ IF Package(plugins[id].pkg).hasDestroy
            THEN /\ Len(unregs) < MaxUnregs
                 /\ unregs' = Append(unregs, [id |-> id, pkg |-> manifests[id]])
                 /\ ev' = Ev("unregister", TRUE, id, "suspended", "", id, "")
                 /\ UNCHANGED tables
            ELSE /\ Remove(id, manifests[id])
                 /\ ev' = Ev("unregister", TRUE, id, "ok", "", id, "")
                 /\ UNCHANGED unregs

Without(s, u) == [i \in 1..(Len(s) - 1) |-> IF i < u THEN s[i] ELSE s[i + 1]]

(* the destroy hook resolves: lines 283-291 *)
DestroySucceeded(u) ==
    /\ u \in DOMAIN unregs
    /\ Remove(unregs[u].id, unregs[u].pkg)
    /\ unregs' = Without(unregs, u)
    /\ ev' = Ev("unregister", FALSE, unregs[u].id, "ok", "", unregs[u].id, "")
    /\ UNCHANGED <<pendingRegistrations, initialized, resolver, passes, factoryCalls>>

(* DestroyFailed with the removal of lines 283-291 done all the same *)
DestroyFailedRemoves(u) ==
    /\ u \in DOMAIN unregs
    /\ Remove(unregs[u].id, unregs[u].pkg)
    /\ unregs' = Without(unregs, u)
    /\ ev' = Ev("unregister", FALSE, unregs[u].id, "Error", "destroy", unregs[u].id, "")
    /\ UNCHANGED <<pendingRegistrations, initialized, resolver, passes, factoryCalls>>

(* the destroy hook rejects: lines 292-299 *)
DestroyFailed(u) ==
    /\ u \in DOMAIN unregs
    /\ unregs' = Without(unregs, u)
    /\ ev' = Ev("unregister", FALSE, unregs[u].id, "Error", "destroy", unregs[u].id, "")
    /\ UNCHANGED <<tables, pendingRegistrations, initialized, resolver, passes,
                   factoryCalls>>

(* what an updatePluginConfig call throws before it stores anything        *)
(* (lines 211-226), "" when it goes on                                     *)
UpdateError(id, partial) ==
    IF ~Has(plugins, id) THEN "PluginNotFoundError"
    ELSE IF ~Has(manifests, id) \/ ~Has(configurations, id) THEN "PluginNotFoundError"
    ELSE IF MissingKeys(Merge(configurations[id], partial),
                        Package(manifests[id]).defaultConfig) # {}
         THEN "PluginConfigurationError"
    ELSE ""

(* HookArgument with the config that was current before the call *)
HookArgumentStale(currentConfig, newConfig) == currentConfig

(* what line 233 hands to the unit's initialize hook *)
HookArgument(currentConfig, newConfig) == newConfig

UpdatePluginConfig(id, partial) ==
    IF UpdateError(id, partial) # ""
    THEN UNCHANGED vars
    ELSE LET newConfig == Merge(configurations[id], partial)
             hook == Package(plugins[id].pkg).hasInit
         IN  /\ Len(updates) < MaxUpdates
             /\ configurations' = Put(configurations, id, newConfig)
             /\ updates' = Append(updates,
                    [id |-> id, partial |-> partial, before |-> configurations[id],
                     hookArgs |-> IF hook
                                  THEN <<HookArgument(configurations[id], newConfig)>>
                                  ELSE <<>>,
                     pc |-> IF hook THEN "hook" ELSE "done"])
             /\ ev' = Ev("update", TRUE, id, IF hook THEN "suspended" ELSE "ok", "",
                         id, "")
             /\ UNCHANGED <<plugins, manifests, capabilities, status,
                            pendingRegistrations, initialized, resolver, passes,
                            unregs, factoryCalls>>

(* the hook invoked at line 233 resolves: the call returns *)
UpdateHookSucceeded(u) ==
    /\ updates[u].pc = "hook"
    /\ updates' = [updates EXCEPT ![u].pc = "done"]
    /\ ev' = Ev("update", FALSE, updates[u].id, "ok", "hook-resolved", updates[u].id, "")
    /\ UNCHANGED <<tables, pendingRegistrations, initialized, resolver, passes,
                   unregs, factoryCalls>>

(* the hook invoked at line 233 rejects: the call rethrows, nothing is undone *)
UpdateHookFailed(u) ==
    /\ updates[u].pc = "hook"
    /\ updates' = [updates EXCEPT ![u].pc = "failed"]
    /\ ev' = Ev("update", FALSE, updates[u].id, "HookError", "hook", updates[u].id, "")
    /\ UNCHANGED <<tables, pendingRegistrations, initialized, resolver, passes,
                   unregs, factoryCalls>>

-----------------------------------------------------------------------------
(* The lookups *)

Return(v) == [ok |-> TRUE, value |-> v]
Throw(e) == [ok |-> FALSE, value |-> e]
Returns(r, v) == r.ok /\ r.value = v
Throws(r, e) == ~r.ok /\ r.value = e

getPlugin(id) ==
    IF Has(plugins, id) THEN Return(plugins[id]) ELSE Throw("PluginNotFoundError")

getCapabilityProvider(cap) ==
    IF ~Has(capabilities, cap) THEN Throw("CapabilityNotFoundError")
    ELSE getPlugin(capabilities[cap])

hasCapability(cap) == Has(capabilities, cap)

getAllPlugins == {plugins[id] : id \in DOMAIN plugins}

getPluginStatus(id) ==
    IF Has(status, id) THEN Return(status[id]) ELSE Throw("PluginNotFoundError")

getPluginConfig(id) ==
    IF Has(configurations, id) THEN Return(configurations[id])
    ELSE Throw("PluginNotFoundError")

(* the plugin objects handed to the manager: two with the name p, one with *)
(* the name q                                                              *)
ManagerPlugins ==
    {[plugin |-> "p1", name |-> "p"], [plugin |-> "p2", name |-> "p"],
     [plugin |-> "q1", name |-> "q"]}

ManagerNames == {pl.name : pl \in ManagerPlugins}

(* new Map() twice (lines 6-7), no listener attached, no call made *)
NewManager ==
    [plugins |-> EmptyMap,
     pluginStates |-> EmptyMap,
     listeners |-> [n \in ManagerNames |-> 0],
     calls |-> <<>>,
     last |-> [op |-> "new", name |-> "", result |-> "ok"]]

-----------------------------------------------------------------------------
(* The registry after construction, and the two ways its operations are   *)
(* issued: Spec lets a call start while earlier calls are suspended at an  *)
(* await; SeqSpec has the caller await every call before the next one.     *)

Init ==
    /\ plugins = EmptyMap
    /\ manifests = EmptyMap
    /\ capabilities = EmptyMap
    /\ status = EmptyMap
    /\ configurations = EmptyMap
    /\ pendingRegistrations = <<>>
    /\ initialized = FALSE
    /\ resolver = EmptyGraph
    /\ passes = <<>>
    /\ unregs = <<>>
    /\ factoryCalls = <<>>
    /\ updates = <<>>
    /\ ev = Ev("new", TRUE, "", "ok", "", "", "")
    /\ mgr = NewManager

Call ==
    \/ UNCHANGED <<updates, mgr>> /\ \E pkg \in Packages, config \in Overrides : RegisterPlugin(pkg, config)
    \/ UNCHANGED <<updates, mgr>> /\ Initialize
    \/ UNCHANGED <<updates, mgr>> /\ \E id \in Ids : UnregisterPlugin(id)

Resume ==
    \/ UNCHANGED <<updates, mgr>> /\ \E p \in DOMAIN passes : HookSucceeded(p)
    \/ UNCHANGED <<updates, mgr>> /\ \E p \in DOMAIN passes : HookFailed(p)
    \/ UNCHANGED <<updates, mgr>> /\ \E p \in DOMAIN passes : ContinuePass(p)
    \/ UNCHANGED <<updates, mgr>> /\ \E u \in DOMAIN unregs : DestroySucceeded(u)
    \/ UNCHANGED <<updates, mgr>> /\ \E u \in DOMAIN unregs : DestroyFailed(u)

Next == Call \/ Resume

Spec == Init /\ [][Next]_vars

Idle ==
    /\ \A p \in DOMAIN passes : passes[p].pc \in {"done", "failed"}
    /\ unregs = <<>>

SeqNext ==
    \/ Idle /\ UNCHANGED <<updates, mgr>>
            /\ \E pkg \in Packages, config \in Overrides : RegisterPlugin(pkg, config)
    \/ Idle /\ UNCHANGED <<updates, mgr>> /\ Initialize
    \/ Idle /\ UNCHANGED <<updates, mgr>> /\ \E id \in Ids : UnregisterPlugin(id)
    \/ Resume

SeqSpec == Init /\ [][SeqNext]_vars

(* CfgSpec: SeqSpec with configurations followed: registerPlugin takes an  *)
(* override, and updatePluginConfig is among the calls.                    *)
CfgIdle == Idle /\ \A u \in DOMAIN updates : updates[u].pc # "hook"

CfgNext ==
    \/ CfgIdle /\ UNCHANGED <<updates, mgr>> /\ Len(pendingRegistrations) < MaxCfgRegs
               /\ \E pkg \in CfgPackages, config \in CfgOverrides :
                      RegisterPlugin(pkg, config)
    \/ CfgIdle /\ UNCHANGED <<updates, mgr>> /\ Initialize
    \/ CfgIdle /\ UNCHANGED <<updates, mgr>> /\ \E id \in Ids : UnregisterPlugin(id)
    \/ CfgIdle /\ UNCHANGED mgr
               /\ \E id \in Ids, partial \in Partials : UpdatePluginConfig(id, partial)
    \/ Resume
    \/ UNCHANGED mgr /\ \E u \in DOMAIN updates : UpdateHookSucceeded(u)
    \/ UNCHANGED mgr /\ \E u \in DOMAIN updates : UpdateHookFailed(u)

CfgSpec == Init /\ [][CfgNext]_vars

(* BatchSpec: the calls awaited one at a time, registerPluginBatch among   *)
(* them, over the packages the batches are made of.                        *)
BatchNext ==
    \/ Idle /\ UNCHANGED mgr
            /\ \E registrations \in BatchLists : RegisterPluginBatch(registrations)
    \/ Idle /\ UNCHANGED <<updates, mgr>>
            /\ \E pkg \in BatchPackages, config \in Overrides : RegisterPlugin(pkg, config)
    \/ Idle /\ UNCHANGED <<updates, mgr>> /\ Initialize
    \/ Idle /\ UNCHANGED <<updates, mgr>> /\ \E id \in Ids : UnregisterPlugin(id)
    \/ Resume

BatchSpec == Init /\ [][BatchNext]_vars

-----------------------------------------------------------------------------
(* The legacy PDFPluginManager (packages/core/src/lib/core): a map of      *)
(* plugins by name, a map of plugin states by name, and the listeners of   *)
(* the '<name>:stateChange' events. registerPlugin suspends at             *)
(* plugin.initialize and unregisterPlugin at plugin.destroy; calls may     *)
(* overlap at those awaits.                                                *)

(* how many registerPlugin/unregisterPlugin calls of the manager are followed *)
MaxManagerCalls == 3

(* what plugin.getState() returns at line 19, and the states carried by    *)
(* '<name>:stateChange' events                                             *)
getState(pl) == "initial"

EventStates == {"changed"}

(* what a registerPlugin call of the manager throws before it suspends     *)
(* (lines 10-12), "" when it goes on to line 15                            *)
ManagerRegisterError(pl) ==
    IF Has(mgr.plugins, pl.name) THEN "already registered" ELSE ""

(* registerPlugin, lines 10-15: the check of the plugin map, then the call *)
(* suspends at plugin.initialize                                           *)
ManagerRegisterPlugin(pl) ==
    IF ManagerRegisterError(pl) # ""
    THEN UNCHANGED vars
    ELSE /\ Len(mgr.calls) < MaxManagerCalls
         /\ mgr' = [mgr EXCEPT
                !.calls = Append(@, [op |-> "register", name |-> pl.name,
                                     plugin |-> pl.plugin, pc |-> "initialize"]),
                !.last = [op |-> "register", name |-> pl.name, result |-> "suspended"]]
         /\ UNCHANGED registry

(* lines 16-27: plugin.initialize resolved; the plugin and its state are   *)
(* stored and one more listener of '<name>:stateChange' is attached        *)
InitializeResolved(c) ==
    LET call == mgr.calls[c]
    IN  /\ call.op = "register"
        /\ call.pc = "initialize"
        /\ mgr' = [mgr EXCEPT
               !.plugins = Put(@, call.name, call.plugin),
               !.pluginStates = Put(@, call.name, getState(call.plugin)),
               !.listeners[call.name] = @ + 1,
               !.calls[c].pc = "done",
               !.last = [op |-> "register", name |-> call.name, result |-> "ok"]]
        /\ UNCHANGED registry

(* line 15: plugin.initialize rejected; the call throws, nothing is stored *)
InitializeRejected(c) ==
    LET call == mgr.calls[c]
    IN  /\ call.op = "register"
        /\ call.pc = "initialize"
        /\ mgr' = [mgr EXCEPT
               !.calls[c].pc = "failed",
               !.last = [op |-> "register", name |-> call.name, result |-> "Error"]]
        /\ UNCHANGED registry

(* unregisterPlugin, lines 36-40: returns at once for a name without       *)
(* plugin, else suspends at plugin.destroy                                 *)
ManagerUnregisterPlugin(name) ==
    IF ~Has(mgr.plugins, name)
    THEN UNCHANGED vars
    ELSE /\ Len(mgr.calls) < MaxManagerCalls
         /\ mgr' = [mgr EXCEPT
                !.calls = Append(@, [op |-> "unregister", name |-> name,
                                     plugin |-> mgr.plugins[name], pc |-> "destroy"]),
                !.last = [op |-> "unregister", name |-> name, result |-> "suspended"]]
         /\ UNCHANGED registry

(* lines 41-45: plugin.destroy resolved; both map entries are deleted, the *)
(* listeners stay attached                                                 *)
DestroyResolved(c) ==
    LET call == mgr.calls[c]
    IN  /\ call.op = "unregister"
        /\ call.pc = "destroy"
        /\ mgr' = [mgr EXCEPT
               !.plugins = Del(@, call.name),
               !.pluginStates = Del(@, call.name),
               !.calls[c].pc = "done",
               !.last = [op |-> "unregister", name |-> call.name, result |-> "ok"]]
        /\ UNCHANGED registry

(* line 40: plugin.destroy rejected; the call throws, nothing is deleted *)
DestroyRejected(c) ==
    LET call == mgr.calls[c]
    IN  /\ call.op = "unregister"
        /\ call.pc = "destroy"
        /\ mgr' = [mgr EXCEPT
               !.calls[c].pc = "failed",
               !.last = [op |-> "unregister", name |-> call.name, result |-> "Error"]]
        /\ UNCHANGED registry

(* a '<name>:stateChange' event is emitted: every listener attached at     *)
(* lines 22-24 stores the new state under the name                         *)
EmitStateChange(name, newState) ==
    IF mgr.listeners[name] = 0
    THEN UNCHANGED vars
    ELSE /\ mgr' = [mgr EXCEPT
                !.pluginStates = Put(@, name, newState),
                !.last = [op |-> "stateChange", name |-> name, result |-> "ok"]]
         /\ UNCHANGED registry

ManagerNext ==
    \/ \E pl \in ManagerPlugins : ManagerRegisterPlugin(pl)
    \/ \E c \in DOMAIN mgr.calls : InitializeResolved(c)
    \/ \E c \in DOMAIN mgr.calls : InitializeRejected(c)
    \/ \E name \in ManagerNames : ManagerUnregisterPlugin(name)
    \/ \E c \in DOMAIN mgr.calls : DestroyResolved(c)
    \/ \E c \in DOMAIN mgr.calls : DestroyRejected(c)
    \/ \E name \in ManagerNames, newState \in EventStates : EmitStateChange(name, newState)

ManagerSpec == Init /\ [][ManagerNext]_vars

(* no call of the manager is in progress *)
ManagerIdle == \A c \in DOMAIN mgr.calls : mgr.calls[c].pc \in {"done", "failed"}

-----------------------------------------------------------------------------
(* Vocabulary of the properties below, read off the manifests themselves   *)

PendingPkg(i) == Package(pendingRegistrations[i].pkg)

DistinctPendingIds ==
    \A i, j \in DOMAIN pendingRegistrations :
        i # j => PendingPkg(i).id # PendingPkg(j).id

Last(s) == s[Len(s)]

(* the step just taken invoked a unit's factory (in pass ev.arg) *)
FactoryStep ==
    /\ ev.op = "initialize"
    /\ ev.cause \in {"recorded", "plugin-id", "missing-keys", "missing-capability",
                     "capability-clash"}

(* the step just taken ended pass ev.arg successfully *)
PassDone == ev.op = "initialize" /\ ev.result = "ok"

Activated(id, ridx) ==
    /\ Has(plugins, id)
    /\ plugins[id].reg = ridx
    /\ Has(status, id)
    /\ status[id] = "active"
    /\ \A c \in Range(Package(plugins[id].pkg).provides) :
           Returns(getCapabilityProvider(c), plugins[id])

-----------------------------------------------------------------------------
(* C1 as stated: in a pass over pending units with distinct ids, when the  *)
(* factory of a unit A is invoked, every other pending unit B that         *)
(* provides a capability A consumes has already been activated by the      *)
(* pass; and when the pass ends successfully every unit of the load order  *)
(* is active, is the provider of what it provides, and units a (provides   *)
(* x) and b (consumes x) were activated in the order a, b.                 *)

C1_AfterPass ==
    PassDone =>
        LET pass == passes[ev.arg]
        IN  /\ Len(pass.done) = Len(pass.order)
            /\ \A k \in DOMAIN pass.order : Activated(pass.order[k], pass.done[k])
            /\ Range(pass.order) = {"a", "b"} => pass.order = <<"a", "b">>

C1_AsClaimed ==
    /\ C1_AfterPass
    /\ (FactoryStep /\ DistinctPendingIds) =>
          LET pass == passes[ev.arg]
              a == Last(pass.started)
          IN  \A b \in DOMAIN pendingRegistrations :
                 (/\ b # a
                  /\ Range(PendingPkg(a).consumes) \cap Range(PendingPkg(b).provides) # {})
                 => b \in Range(pass.done)

(* C1, amended: the same, for the unit B that is the first pending unit    *)
(* providing the capability A consumes (the one the graph's edge goes to). *)
C1_ProviderFirst ==
    /\ C1_AfterPass
    /\ (FactoryStep /\ DistinctPendingIds) =>
          LET pass == passes[ev.arg]
              a == Last(pass.started)
          IN  \A b \in DOMAIN pendingRegistrations :
                 (/\ b # a
                  /\ \E c \in Range(PendingPkg(a).consumes) :
                        /\ c \in Range(PendingPkg(b).provides)
                        /\ \A k \in 1..(b - 1) : c \notin Range(PendingPkg(k).provides))
                 => b \in Range(pass.done)

(* a pass over a (provides x) and b (consumes x, provides y) has ended well *)
C1_Witness ==
    /\ PassDone
    /\ passes[ev.arg].order = <<"a", "b">>
    /\ Returns(getCapabilityProvider("x"), plugins["a"])
    /\ Returns(getCapabilityProvider("y"), plugins["b"])

-----------------------------------------------------------------------------
(* The capability graph of the pending registrations: an edge from a unit  *)
(* to the unit that provides a capability it consumes; a cycle is a closed *)
(* walk along edges.                                                       *)

PendingEdge(i, j) ==
    \E c \in Range(PendingPkg(i).consumes), q \in DOMAIN pendingRegistrations :
        /\ c \in Range(PendingPkg(q).provides)
        /\ \A k \in 1..(q - 1) : c \notin Range(PendingPkg(k).provides)
        /\ PendingPkg(q).id = PendingPkg(j).id

PendingCyclic ==
    \E n \in 1..Len(pendingRegistrations) :
        \E f \in [1..n -> DOMAIN pendingRegistrations] :
            \A i \in 1..n : PendingEdge(f[i], f[(i % n) + 1])

(* the step just taken was an initialize() call that started pass ev.arg *)
InitializeCall == ev.op = "initialize" /\ ev.call

-----------------------------------------------------------------------------
(* What does hold of C2's case: the first initialize() call of a registry  *)
(* over a cyclic pending list fails in the resolver before any factory is  *)
(* invoked and with every table empty.                                     *)
C2_FirstCall ==
    (InitializeCall /\ ev.arg = 1 /\ PendingCyclic) =>
        /\ ev.result = "CircularDependencyError"
        /\ ev.cause = "resolver"
        /\ passes[ev.arg].started = <<>>
        /\ getAllPlugins = {}
        /\ \A c \in {"w", "x", "y", "z"} : ~hasCapability(c)

(* C2 as stated: an initialize() call over pending registrations whose     *)
(* capability graph has a cycle fails in the resolver with the             *)
(* dependency-resolution error, invokes no factory, and leaves zero units  *)
(* recorded and no capability claimed.                                     *)
C2_AsClaimed ==
    (InitializeCall /\ ev.result # "ok" /\ PendingCyclic) =>
        /\ ev.result = "CircularDependencyError"
        /\ ev.cause = "resolver"
        /\ passes[ev.arg].started = <<>>
        /\ getAllPlugins = {}
        /\ \A c \in {"w", "x", "y", "z"} : ~hasCapability(c)

-----------------------------------------------------------------------------
(* C3 as stated: when two pending units with distinct ids provide the same *)
(* capability the pass ends with a registration error and neither of the   *)
(* two is active afterwards.  Stated of the step that ends the pass at the *)
(* second claim of a capability: the pending list is the one the pass ran  *)
(* over.                                                                   *)

SharedProvides(i, j) ==
    /\ i # j
    /\ Range(PendingPkg(i).provides) \cap Range(PendingPkg(j).provides) # {}

IsActive(id) == getPlugin(id).ok /\ Returns(getPluginStatus(id), "active")

PassEnds == ev'.op = "initialize" /\ ev'.result # "suspended"

C3_AsClaimed ==
    [][(PassEnds /\ ev'.cause = "capability-clash") =>
         \A i, j \in DOMAIN pendingRegistrations :
             (SharedProvides(i, j) /\ PendingPkg(i).id # PendingPkg(j).id) =>
                 /\ ev'.result = "PluginRegistrationError"
                 /\ ~IsActive(PendingPkg(i).id)'
                 /\ ~IsActive(PendingPkg(j).id)']_vars

(* What does hold of C3's case: when two pending units with distinct ids   *)
(* provide the same capability the pass fails, and the two are never both  *)
(* active                                                                  *)
(* afterwards; when the pass fails on the collision itself the cause is    *)
(* the registration error thrown for it and the capability stays with the  *)
(* unit that claimed it first.                                             *)
C3_NotBothActive ==
    [][PassEnds =>
         \A i, j \in DOMAIN pendingRegistrations :
             (SharedProvides(i, j) /\ PendingPkg(i).id # PendingPkg(j).id) =>
                 /\ ev'.result # "ok"
                 /\ ~(IsActive(PendingPkg(i).id)' /\ IsActive(PendingPkg(j).id)')
                 /\ ev'.cause = "capability-clash" =>
                       /\ hasCapability(ev'.cap)
                       /\ capabilities'[ev'.cap] = capabilities[ev'.cap]]_vars

(* a pass over a (provides x), b and c (provides z, x) failed on c's claim *)
(* of x                                                                    *)
C3_Witness ==
    /\ ev.op = "initialize"
    /\ ev.cause = "capability-clash"
    /\ ev.unit = "c"
    /\ ev.cap = "x"
    /\ IsActive("a")
    /\ IsActive("b")
    /\ ~Has(plugins, "c")

-----------------------------------------------------------------------------
(* the step just taken was a unit's initialize hook rejecting in pass     *)
(* ev.arg, which ended the pass                                            *)
HookFailedStep == ev.op = "initialize" /\ ev.cause = "hook"

(* C4: when a unit's initialize hook fails, then as the initialize() call  *)
(* returns no capability the unit provides is in the capability table and  *)
(* getPlugin of its id reports not-found, while every unit the pass        *)
(* activated before it is still active, returned by getPlugin and the      *)
(* provider of each capability it provides.                                *)
C4_HookFailureRollsBack ==
    HookFailedStep =>
        LET pass == passes[ev.arg]
            m == Package(pass.pkg)
        IN  /\ \A c \in Range(m.provides) : ~hasCapability(c)
            /\ Throws(getPlugin(m.id), "PluginNotFoundError")
            /\ \A k \in DOMAIN pass.done :
                   Activated(PendingPkg(pass.done[k]).id, pass.done[k])

(* the hook of b rejected after a had been activated by the same pass *)
C4_Witness ==
    /\ HookFailedStep
    /\ ev.unit = "b"
    /\ passes[ev.arg].done # <<>>
    /\ IsActive("a")
    /\ ~hasCapability("y")

(* C5 as stated: after a unit's initialize hook failed, every table is as  *)
(* if the unit had never been registered: getPlugin, getPluginStatus and   *)
(* getPluginConfig of its id all report not-found.                         *)
C5_AsClaimed ==
    HookFailedStep =>
        /\ Throws(getPlugin(ev.unit), "PluginNotFoundError")
        /\ Throws(getPluginStatus(ev.unit), "PluginNotFoundError")
        /\ Throws(getPluginConfig(ev.unit), "PluginNotFoundError")
        /\ ev.unit \notin DOMAIN manifests

(* C6 as stated: a pending unit that consumes a capability no pending unit *)
(* provides does not fail the resolver; initialize() fails with a          *)
(* registration error naming the capability and the unit when the unit is  *)
(* instantiated, and the unit is recorded in no table.                     *)
C6_AsClaimed ==
    (ev.op = "initialize" /\ ev.cause = "missing-capability") =>
        /\ ev.result = "PluginRegistrationError"
        /\ ev.cap \in Range(Package(passes[ev.arg].pkg).consumes)
        /\ ev.unit = Package(passes[ev.arg].pkg).id
        /\ Throws(getPlugin(ev.unit), "PluginNotFoundError")

-----------------------------------------------------------------------------
Recorded(id) == Has(plugins, id) /\ Has(manifests, id)

(* another recorded unit consumes a capability the recorded unit id provides *)
StillConsumed(id) ==
    \E other \in DOMAIN manifests :
        /\ other # id
        /\ \E c \in Range(Package(manifests[other]).consumes) :
               c \in Range(Package(manifests[id]).provides)

(* C7: unregister(id) while another recorded unit consumes a capability    *)
(* id provides throws the registration error, and such a call takes no     *)
(* step that changes a table or reaches the destroy hook.                  *)
C7_DependentsSafe ==
    /\ [](\A id \in Ids :
            (Recorded(id) /\ StillConsumed(id)) =>
                UnregisterError(id) = "PluginRegistrationError")
    /\ [][\A id \in Ids :
            (/\ Recorded(id)
             /\ StillConsumed(id)
             /\ ev'.op = "unregister"
             /\ ev'.call
             /\ ev'.arg = id)
            => UNCHANGED <<tables, unregs>>]_vars

(* a and b are active, b consumes what a provides, unregister("a") throws *)
C7_Witness ==
    /\ IsActive("a")
    /\ IsActive("b")
    /\ StillConsumed("a")
    /\ UnregisterError("a") = "PluginRegistrationError"
    /\ UnregisterError("b") = ""

(* the step just taken completed an unregister(ev.unit) call *)
UnregisterDone == ev.op = "unregister" /\ ev.result = "ok"

PackageOf(id) == CHOOSE p \in Packages : p.id = id

(* C8 as stated: after unregister(id) succeeded no table has an entry for  *)
(* id: no capability it provided is claimed, and getPlugin,                *)
(* getPluginStatus and getPluginConfig all report not-found.               *)
C8_AsClaimed ==
    UnregisterDone =>
        /\ \A c \in Range(PackageOf(ev.unit).provides) : ~hasCapability(c)
        /\ Throws(getPlugin(ev.unit), "PluginNotFoundError")
        /\ Throws(getPluginStatus(ev.unit), "PluginNotFoundError")
        /\ Throws(getPluginConfig(ev.unit), "PluginNotFoundError")
        /\ ev.unit \notin DOMAIN manifests

(* C9: once the registry is activated it stays activated, the pending list *)
(* is empty, every register() and initialize() call throws the             *)
(* registration error, and no step of such a call changes anything.        *)
C9_ActivatesOnce ==
    /\ [](initialized =>
            /\ pendingRegistrations = <<>>
            /\ InitializeError = "PluginRegistrationError"
            /\ \A pkg \in Packages : RegisterError(pkg) = "PluginRegistrationError")
    /\ [][initialized =>
            /\ initialized'
            /\ (ev'.call /\ ev'.op \in {"register", "initialize"}) =>
                  UNCHANGED <<tables, pendingRegistrations, resolver, passes, unregs,
                              factoryCalls>>]_vars

(* a pass over two units has just ended well and marked the registry *)
C9_Witness ==
    /\ PassDone
    /\ initialized
    /\ Len(passes[ev.arg].done) >= 2
    /\ RegisterError(PA) = "PluginRegistrationError"

(* C10 as stated: the factory of a pending registration is invoked at most *)
(* once, whatever register and initialize calls are made.                  *)
C10_AsClaimed == \A i \in DOMAIN factoryCalls : factoryCalls[i] <= 1

-----------------------------------------------------------------------------
(* the step being taken is a registerPlugin call that was accepted *)
RegisterStep == ev'.op = "register"

(* a manifest with non-empty id, name and version whose provides and       *)
(* consumes are arrays                                                     *)
WellFormed(m) ==
    /\ m.id # "" /\ m.name # "" /\ m.version # ""
    /\ m.providesIsArray /\ m.consumesIsArray

(* C11: an accepted registerPlugin call appends one pending registration   *)
(* and changes nothing else: no factory is invoked, no table changes, so   *)
(* getAllPlugins, hasCapability and getPluginStatus answer as before; and  *)
(* a call with a malformed manifest throws and appends nothing, so every   *)
(* pending registration has a well-formed manifest.                        *)
C11_RegisterOnlyAppends ==
    /\ [](/\ \A i \in DOMAIN pendingRegistrations : WellFormed(PendingPkg(i))
          /\ \A pkg \in Packages :
                ~WellFormed(pkg) => RegisterError(pkg) = "PluginRegistrationError")
    /\ [][RegisterStep =>
            /\ ~initialized
            /\ \E pkg \in Packages, config \in Overrides :
                   pendingRegistrations' =
                       Append(pendingRegistrations, [pkg |-> pkg.pkg, config |-> config])
            /\ factoryCalls' = Append(factoryCalls, 0)
            /\ getAllPlugins' = getAllPlugins
            /\ \A c \in {"w", "x", "y", "z"} : hasCapability(c)' = hasCapability(c)
            /\ \A id \in Ids : getPluginStatus(id)' = getPluginStatus(id)
            /\ UNCHANGED <<tables, initialized, resolver, passes, unregs>>]_vars

(* a registration was accepted while the tables hold a unit of an earlier, *)
(* failed pass, and a malformed manifest would be rejected                 *)
C11_Witness ==
    /\ ev.op = "register"
    /\ Len(pendingRegistrations) = 3
    /\ getAllPlugins # {}
    /\ ~initialized
    /\ RegisterError(PN) = "PluginRegistrationError"

-----------------------------------------------------------------------------
(* the status of a unit id as getPluginStatus shows it *)
StatusOf(id) == IF Has(status, id) THEN status[id] ELSE "unregistered"

(* the step being taken ran lines 157 and 164 one after the other for a    *)
(* unit without an initialize hook: its status passes through 'registered' *)
(* within the step                                                         *)
RecordsHookless(id) ==
    /\ ev'.op = "initialize"
    /\ ev'.cause = "recorded"
    /\ ev'.unit = id
    /\ ~PackageOf(id).hasInit

(* C12 as stated: the status of every unit id only moves unregistered ->   *)
(* registered -> active -> unregistered, or registered -> unregistered;    *)
(* in particular never from active back to registered.                     *)
C12_AsClaimed ==
    [][\A id \in Ids :
          \/ StatusOf(id)' = StatusOf(id)
          \/ StatusOf(id) = "unregistered" /\ StatusOf(id)' = "registered"
          \/ StatusOf(id) = "unregistered" /\ StatusOf(id)' = "active"
                 /\ RecordsHookless(id)
          \/ StatusOf(id) = "registered" /\ StatusOf(id)' = "active"
          \/ StatusOf(id) = "registered" /\ StatusOf(id)' = "unregistered"
          \/ StatusOf(id) = "active" /\ StatusOf(id)' = "unregistered"]_vars

-----------------------------------------------------------------------------
(* every registration accepted so far has had its factory invoked *)
AllInstantiated == \A i \in DOMAIN factoryCalls : factoryCalls[i] >= 1

(* C13 as stated: no two pending registrations share an id, and when an    *)
(* initialize() call succeeds every accepted registration has been         *)
(* instantiated.                                                           *)
C13_AsClaimed ==
    /\ DistinctPendingIds
    /\ PassDone => AllInstantiated

-----------------------------------------------------------------------------
(* C14: the configuration stored for a unit id has every key of the        *)
(* manifest's defaultConfig, whatever override the unit was registered     *)
(* with and whatever partial configs it was updated with (undeclared keys  *)
(* included); activation never fails in validateConfig, and no             *)
(* updatePluginConfig call can.                                            *)
C14_DefaultKeysKept ==
    /\ \A id \in DOMAIN configurations :
           DOMAIN PackageOf(id).defaultConfig \subseteq DOMAIN configurations[id]
    /\ ev.cause # "missing-keys"
    /\ \A id \in Ids, partial \in Partials :
           UpdateError(id, partial) # "PluginConfigurationError"

(* a was registered with an override that adds an undeclared key, and its *)
(* configuration was then updated with a partial config                    *)
C14_Witness ==
    /\ ev.op = "update"
    /\ Has(plugins, "a")
    /\ Has(configurations, "a")
    /\ DOMAIN configurations["a"] = {"enabled", "extra"}
    /\ configurations["a"]["enabled"] = 3
    /\ configurations["a"]["extra"] = 2

-----------------------------------------------------------------------------
(* C15: updatePluginConfig(id, partial) throws not-found (and, being       *)
(* rejected, changes nothing) exactly when id has no live instance;        *)
(* an accepted call stores the current configuration overridden key by key *)
(* by partial, touches no other table and no other unit's configuration,   *)
(* and invokes the unit's initialize hook, if it has one, once and with    *)
(* the configuration just stored; the hook's outcome changes no table.     *)
C15_UpdateStoresAndReinitializes ==
    /\ [](\A id \in Ids, partial \in Partials :
             UpdateError(id, partial) =
                 IF Has(plugins, id) THEN "" ELSE "PluginNotFoundError")
    /\ [][(ev'.op = "update" /\ ev'.call) =>
             LET u == Last(updates')
                 old == configurations[u.id]
                 new == configurations'[u.id]
             IN  /\ Has(plugins, u.id)
                 /\ updates' = Append(updates, u)
                 /\ DOMAIN configurations' = DOMAIN configurations
                 /\ \A o \in DOMAIN configurations \ {u.id} :
                        configurations'[o] = configurations[o]
                 /\ DOMAIN new = (DOMAIN old) \cup (DOMAIN u.partial)
                 /\ \A k \in DOMAIN new :
                        new[k] = IF k \in DOMAIN u.partial THEN u.partial[k] ELSE old[k]
                 /\ u.hookArgs = IF Package(plugins[u.id].pkg).hasInit
                                  THEN <<new>> ELSE <<>>
                 /\ UNCHANGED <<plugins, manifests, capabilities, status>>]_vars
    /\ [][(ev'.op = "update" /\ ~ev'.call) =>
             /\ UNCHANGED tables
             /\ \A u \in DOMAIN updates : updates'[u].hookArgs = updates[u].hookArgs]_vars

(* an update of the active unit a (which has an initialize hook) has       *)
(* returned after its hook resolved, and an update of the unrecorded id e  *)
(* would be refused                                                        *)
C15_Witness ==
    /\ ev.op = "update"
    /\ ev.cause = "hook-resolved"
    /\ ev.unit = "a"
    /\ IsActive("a")
    /\ configurations["a"]["enabled"] = 3
    /\ Last(updates).hookArgs = <<configurations["a"]>>
    /\ \A partial \in Partials : UpdateError("e", partial) = "PluginNotFoundError"

-----------------------------------------------------------------------------
(* the unit ids whose bookkeeping is committed and whose status is still   *)
(* 'registered'                                                            *)
InFlight == {id \in Ids : StatusOf(id) = "registered"}

(* the unit ids with an initialize hook of an activation pass pending *)
HookPending == {Package(passes[q].pkg).id : q \in {r \in DOMAIN passes : passes[r].pc = "hook"}}

(* C16 as stated: at most one unit id has status 'registered', and when a  *)
(* unit's factory has just been invoked no other unit's initialize hook    *)
(* from an activation pass is pending.                                     *)
C16_AsClaimed ==
    /\ Cardinality(InFlight) <= 1
    /\ FactoryStep => HookPending \subseteq {ev.unit}

-----------------------------------------------------------------------------
(* the step just taken invoked the initialize hook of unit ev.unit in pass *)
(* ev.arg (line 162): the unit was recorded and its product has the hook   *)
HookInvoked ==
    /\ ev.op = "initialize"
    /\ ev.cause = "recorded"
    /\ passes[ev.arg].pc = "hook"

(* C17: when a unit's initialize hook is invoked by the activation pass,   *)
(* every capability it provides is mapped to it in the capability table,   *)
(* every capability it consumes is in the capability table, getPlugin      *)
(* returns the instance just created, its status is 'registered', and its  *)
(* configuration is the manifest's defaultConfig overridden key by key by  *)
(* the config it was registered with.                                      *)
C17_CommittedBeforeHook ==
    HookInvoked =>
        LET pass == passes[ev.arg]
            m == Package(pass.pkg)
            reg == pendingRegistrations[Last(pass.started)]
        IN  /\ m.id = ev.unit
            /\ \A c \in Range(m.provides) :
                   hasCapability(c) /\ capabilities[c] = m.id
            /\ \A c \in Range(m.consumes) : hasCapability(c)
            /\ Returns(getPlugin(m.id), pass.inst)
            /\ manifests[m.id] = m.pkg
            /\ Returns(getPluginStatus(m.id), "registered")
            /\ getPluginConfig(m.id).ok
            /\ LET cfg == getPluginConfig(m.id).value
               IN  /\ DOMAIN cfg = (DOMAIN m.defaultConfig) \cup (DOMAIN reg.config)
                   /\ \A k \in DOMAIN cfg :
                          cfg[k] = IF k \in DOMAIN reg.config THEN reg.config[k]
                                   ELSE m.defaultConfig[k]

(* the hook of b (consumes x, provides y) has just been invoked while a,  *)
(* the provider of x, is active                                            *)
C17_Witness ==
    /\ HookInvoked
    /\ ev.unit = "b"
    /\ IsActive("a")
    /\ capabilities["x"] = "a"
    /\ capabilities["y"] = "b"

-----------------------------------------------------------------------------
(* the step just taken was a unit of pass ev.arg failing: in the factory's *)
(* product, a missing capability, a capability collision or the hook       *)
UnitFailed ==
    /\ ev.op = "initialize"
    /\ ev.cause \in {"plugin-id", "missing-keys", "missing-capability",
                     "capability-clash", "hook"}

(* C18: when a unit of an activation pass fails, the error reaches the     *)
(* caller of initialize(), the registry is not marked activated, the units *)
(* the pass activated before it are still active, no unit later in the     *)
(* load order has had its factory invoked by the pass, and the pass takes  *)
(* no further step.                                                        *)
C18_PassStopsAtFailure ==
    /\ [](UnitFailed =>
            LET pass == passes[ev.arg]
            IN  /\ ev.result \notin {"ok", "suspended"}
                /\ pass.pc = "failed"
                /\ ~initialized
                /\ pendingRegistrations # <<>>
                /\ Package(pass.pkg).id = ev.unit
                /\ pass.started = Append(pass.done, Last(pass.started))
                /\ \A k \in DOMAIN pass.done :
                       Activated(PendingPkg(pass.done[k]).id, pass.done[k])
                /\ \A k \in DOMAIN pass.order :
                       k > pass.idx =>
                           FindReg(pendingRegistrations, pass.order[k])
                               \notin Range(pass.started))
    /\ [][\A p \in DOMAIN passes :
             passes[p].pc = "failed" => passes'[p] = passes[p]]_vars

(* a pass over a, c and b activated a and failed at c's claim of x; b,     *)
(* later in the load order, was never instantiated                         *)
C18_Witness ==
    /\ UnitFailed
    /\ ev.cause = "capability-clash"
    /\ ev.unit = "c"
    /\ passes[ev.arg].order = <<"a", "c", "b">>
    /\ IsActive("a")
    /\ ~getPlugin("b").ok
    /\ factoryCalls[FindReg(pendingRegistrations, "b")] = 0

-----------------------------------------------------------------------------
(* the step just taken was the destroy hook of unit ev.unit rejecting, *)
(* which ended the unregisterPlugin call                                   *)
DestroyFailedStep == ev.op = "unregister" /\ ev.cause = "destroy"

(* C19 as stated: when the destroy hook fails the error is surfaced and    *)
(* the unit is nevertheless removed: its capability entries, its instance  *)
(* and its manifest are gone.                                              *)
C19_AsClaimed ==
    DestroyFailedStep =>
        /\ ev.result = "Error"
        /\ Throws(getPlugin(ev.unit), "PluginNotFoundError")
        /\ ev.unit \notin DOMAIN manifests
        /\ \A c \in Range(PackageOf(ev.unit).provides) : ~hasCapability(c)

(* C19, amended: when the destroy hook fails the wrapped error is surfaced *)
(* and the removal is skipped: the step changes no table, and the unit is  *)
(* still returned by getPlugin, still has its manifest, status and         *)
(* configuration, and still holds every capability it provides.            *)
C19_DestroyFailureKeepsUnit ==
    /\ [](DestroyFailedStep =>
            /\ ev.result = "Error"
            /\ getPlugin(ev.unit).ok
            /\ getPlugin(ev.unit).value.pkg = PackageOf(ev.unit).pkg
            /\ Has(manifests, ev.unit)
            /\ getPluginStatus(ev.unit).ok
            /\ getPluginConfig(ev.unit).ok
            /\ \A c \in Range(PackageOf(ev.unit).provides) :
                   hasCapability(c) /\ capabilities[c] = ev.unit)
    /\ [][(ev'.op = "unregister" /\ ev'.cause = "destroy") => UNCHANGED tables]_vars

(* the destroy hook of the active unit a rejected and a still provides x *)
C19_Witness ==
    /\ DestroyFailedStep
    /\ ev.unit = "a"
    /\ IsActive("a")
    /\ Returns(getCapabilityProvider("x"), plugins["a"])

-----------------------------------------------------------------------------
(* the position of the first entry of a batch whose registerPlugin call    *)
(* throws (the registry is activated or the manifest is malformed), 0 when *)
(* every entry is accepted                                                 *)
FirstRejected(registrations) ==
    LET bad == {i \in DOMAIN registrations :
                  initialized \/ ~WellFormed(registrations[i].package)}
    IN  IF bad = {} THEN 0 ELSE CHOOSE i \in bad : \A j \in bad : i <= j

BatchStep == ev'.op = "batch"

(* C20: registerPluginBatch registers its entries in list order and stops  *)
(* at the first entry whose registration fails: exactly the entries before *)
(* it are appended to the pending list, in order, the failing entry and    *)
(* the later ones are not, that entry's PluginRegistrationError reaches    *)
(* the caller, and nothing but the pending list changes.                   *)
C20_BatchStopsAtFirstFailure ==
    /\ [](\A registrations \in BatchLists :
            BatchError(registrations) =
                IF FirstRejected(registrations) = 0 THEN "" ELSE "PluginRegistrationError")
    /\ [][BatchStep =>
            \E registrations \in BatchLists :
                LET k == FirstRejected(registrations)
                    n == IF k = 0 THEN Len(registrations) ELSE k - 1
                IN  /\ ev'.arg = [i \in DOMAIN registrations |-> registrations[i].package.pkg]
                    /\ pendingRegistrations' = pendingRegistrations \o
                           [i \in 1..n |-> [pkg |-> registrations[i].package.pkg,
                                            config |-> registrations[i].config]]
                    /\ ev'.result = IF k = 0 THEN "ok" ELSE "PluginRegistrationError"
                    /\ Len(factoryCalls') = Len(pendingRegistrations')
                    /\ UNCHANGED <<tables, initialized, resolver, passes, unregs>>]_vars

(* the batch <<PA, PM>> was handed in after PB had been registered: PA was *)
(* appended behind PB, PM (a manifest without id) was rejected and its     *)
(* error reached the caller                                                *)
C20_Witness ==
    /\ ev.op = "batch"
    /\ ev.arg = <<"PA", "PM">>
    /\ ev.result = "PluginRegistrationError"
    /\ [i \in DOMAIN pendingRegistrations |-> pendingRegistrations[i].pkg] = <<"PB", "PA">>

-----------------------------------------------------------------------------
(* C21 as stated: whenever no call is in progress, every capability-table  *)
(* entry c -> id refers to a unit with a live instance whose manifest      *)
(* lists c in provides, and hasCapability(c) is true exactly when          *)
(* getCapabilityProvider(c) returns an instance.                           *)
C21_AsClaimed ==
    Idle =>
        \A c \in {"w", "x", "y", "z"} :
            /\ hasCapability(c) <=> getCapabilityProvider(c).ok
            /\ hasCapability(c) =>
                  /\ getPlugin(capabilities[c]).ok
                  /\ c \in Range(PackageOf(capabilities[c]).provides)

(* the activation of c (provides z, then x) failed on x, which a holds:    *)
(* the entry z -> c made before the collision was found is still in the    *)
(* table although c has no instance                                        *)
C21_Witness ==
    /\ Idle
    /\ ev.op = "initialize"
    /\ ev.cause = "capability-clash"
    /\ ev.unit = "c"
    /\ ev.cap = "x"
    /\ hasCapability("z")
    /\ capabilities["z"] = "c"
    /\ Throws(getCapabilityProvider("z"), "PluginNotFoundError")

-----------------------------------------------------------------------------
(* an updatePluginConfig call fails at the unit's re-invoked hook *)
UpdateFailedStep(u) == updates[u].pc = "hook" /\ updates'[u].pc = "failed"

(* C22 as stated: when updatePluginConfig(id, partial) fails because the   *)
(* unit's re-invoked initialize hook fails, getPluginConfig(id) returns    *)
(* the configuration it returned before the call.                          *)
C22_AsClaimed ==
    [][\A u \in DOMAIN updates :
          UpdateFailedStep(u) =>
              Returns(getPluginConfig(updates[u].id)', updates[u].before)]_vars

(* the hook of a rejected the configuration of an update, the call failed, *)
(* and getPluginConfig(a) returns the merged configuration, not the one    *)
(* from before the call                                                    *)
C22_Witness ==
    /\ ev.op = "update"
    /\ ev.result = "HookError"
    /\ ev.unit = "a"
    /\ Last(updates).pc = "failed"
    /\ Last(updates).id = "a"
    /\ Returns(getPluginConfig("a"), Merge(Last(updates).before, Last(updates).partial))
    /\ ~Returns(getPluginConfig("a"), Last(updates).before)

-----------------------------------------------------------------------------
(* the step ends a pass successfully (lines 104-105 ran) *)
PassSucceeds == ev'.op = "initialize" /\ ev'.result = "ok"

(* C23 as stated: when a pass completes, every accepted registration is of *)
(* a unit the pass activated or is still among the pending registrations,  *)
(* a registration accepted while the pass was suspended at a hook          *)
(* included.                                                               *)
C23_AsClaimed ==
    [][PassSucceeds =>
         \A i \in DOMAIN pendingRegistrations :
             \/ \E j \in Range(passes'[ev'.arg].done) :
                    PendingPkg(j).id = PendingPkg(i).id
             \/ /\ i \in DOMAIN pendingRegistrations'
                /\ pendingRegistrations'[i] = pendingRegistrations[i]]_vars

(* the only pass activated a and completed; the registration of e,         *)
(* accepted while the pass was suspended at a's hook, is neither active    *)
(* nor pending, and its factory was never invoked                          *)
C23_Witness ==
    /\ ev.op = "initialize"
    /\ ev.result = "ok"
    /\ Len(passes) = 1
    /\ initialized
    /\ pendingRegistrations = <<>>
    /\ factoryCalls = <<1, 0>>
    /\ IsActive("a")
    /\ Throws(getPlugin("e"), "PluginNotFoundError")
    /\ Throws(getPluginStatus("e"), "PluginNotFoundError")

-----------------------------------------------------------------------------
(* a registerPlugin call of the manager for the name is suspended at       *)
(* plugin.initialize                                                       *)
BeingRegistered(name) ==
    \E c \in DOMAIN mgr.calls :
        /\ mgr.calls[c].op = "register"
        /\ mgr.calls[c].name = name
        /\ mgr.calls[c].pc = "initialize"

(* a registerPlugin call for a name that is registered or being registered *)
(* fails with 'already registered'                                         *)
SecondRegistrationFails ==
    \A pl \in ManagerPlugins :
        (Has(mgr.plugins, pl.name) \/ BeingRegistered(pl.name)) =>
            ManagerRegisterError(pl) = "already registered"

(* at most one '<name>:stateChange' listener is attached per name *)
OneListener == \A name \in ManagerNames : mgr.listeners[name] <= 1

(* with no call in progress the plugin map and the plugin-state map have   *)
(* the same keys                                                           *)
KeySetsEqual == ManagerIdle => DOMAIN mgr.plugins = DOMAIN mgr.pluginStates

(* C24 as stated: in the legacy PDFPluginManager a registerPlugin call for *)
(* a name already registered or being registered fails with 'already       *)
(* registered', so only one stateChange listener is attached per name, and *)
(* the plugin map and the plugin-state map have equal key sets whenever no *)
(* call is in progress.                                                    *)
C24_AsClaimed ==
    /\ SecondRegistrationFails
    /\ OneListener
    /\ KeySetsEqual

(* p was registered and unregistered, then a 'p:stateChange' event was     *)
(* emitted: no call is in progress, the plugin map has no p, the           *)
(* plugin-state map has                                                    *)
C24_Witness ==
    /\ ManagerIdle
    /\ mgr.last = [op |-> "stateChange", name |-> "p", result |-> "ok"]
    /\ ~Has(mgr.plugins, "p")
    /\ Has(mgr.pluginStates, "p")
    /\ mgr.pluginStates["p"] = "changed"

====
